---------------------------- MODULE Spec2Model ----------------------------
(***************************************************************************)
(* A model of whiskers' template functions (src/whiskers/src/functions.rs) *)
(* and of its engine construction, example macros and operation catalog    *)
(* (src/whiskers/src/templating.rs).                                       *)
(***************************************************************************)
EXTENDS Integers, Sequences, FiniteSets, TLC

(***************************************************************************)
(* Bounds of the model.                                                    *)
(***************************************************************************)
\* numbers offered as plain arguments are 0..MaxNum
MaxNum == 2
\* how many of KeyNames are offered as argument names to `object`
MaxKeys == 3
\* how many `key = value` pairs are written in a macro invocation, at most
MaxArgs == 3

(***************************************************************************)
(* The state: what the callers of the crate hold.                          *)
(***************************************************************************)
VARIABLES
    engines,        \* the engines make_engine has returned so far
    seenFunctions,  \* the catalogs all_functions has returned so far
    seenFilters,    \* the catalogs all_filters has returned so far
    call            \* the latest function call or macro expansion, with its result

vars == <<engines, seenFunctions, seenFilters, call>>

(***************************************************************************)
(* tera::Value (serde_json::Value): a tagged union.                        *)
(***************************************************************************)
Null == [kind |-> "null"]
Bool(b) == [kind |-> "bool", b |-> b]
Number(n) == [kind |-> "number", n |-> n]
String(s) == [kind |-> "string", s |-> s]
\* entries: a sequence of [key, value] records, in the map's iteration order
Object(entries) == [kind |-> "object", entries |-> entries]

\* Result<tera::Value, tera::Error>; a panic is a third outcome, which the
\* functions of functions.rs never produce
Ok(v) == [tag |-> "Ok", value |-> v]
Err(m) == [tag |-> "Err", msg |-> m]
Panic == [tag |-> "Panic"]

(***************************************************************************)
(* functions.rs: if_fn                                                     *)
(***************************************************************************)
\* serde_json::Value::as_bool: Some(b) for a Bool, None for anything else
as_bool(v) == IF v.kind = "bool" THEN Ok(v.b) ELSE Err("None")

\* the branches the wrong way round
if_fn_swapped(args) ==
    IF "cond" \notin DOMAIN args THEN Err("cond is required")
    ELSE IF as_bool(args["cond"]).tag # "Ok" THEN Err("cond must be a boolean")
    ELSE IF "t" \notin DOMAIN args THEN Err("t is required")
    ELSE IF "f" \notin DOMAIN args THEN Err("f is required")
    ELSE Ok(IF as_bool(args["cond"]).value THEN args["f"] ELSE args["t"])

\* only the selected branch looked up
if_fn_lazy_branch(args) ==
    IF "cond" \notin DOMAIN args THEN Err("cond is required")
    ELSE IF as_bool(args["cond"]).tag # "Ok" THEN Err("cond must be a boolean")
    ELSE IF as_bool(args["cond"]).value
         THEN (IF "t" \notin DOMAIN args THEN Err("t is required") ELSE Ok(args["t"]))
         ELSE (IF "f" \notin DOMAIN args THEN Err("f is required") ELSE Ok(args["f"]))

if_fn(args) ==
    IF "cond" \notin DOMAIN args THEN Err("cond is required")
    ELSE IF as_bool(args["cond"]).tag # "Ok" THEN Err("cond must be a boolean")
    ELSE IF "t" \notin DOMAIN args THEN Err("t is required")
    ELSE IF "f" \notin DOMAIN args THEN Err("f is required")
    ELSE Ok(IF as_bool(args["cond"]).value THEN args["t"] ELSE args["f"])

(***************************************************************************)
(* functions.rs: object                                                    *)
(***************************************************************************)
\* the argument names offered to `object`; the first MaxKeys are used
KeyNames == <<"b", "a", "ab", "B", "c">>

\* the UTF-8 bytes of the argument names: String's Ord, by which BTreeMap
\* orders its keys, compares them byte by byte
bytes(s) ==
    CASE s = "a" -> <<97>>
      [] s = "b" -> <<98>>
      [] s = "c" -> <<99>>
      [] s = "B" -> <<66>>
      [] s = "ab" -> <<97, 98>>

\* lexicographic order on byte strings (a proper prefix comes first)
StrLess(x, y) ==
    LET bx == bytes(x)
        by == bytes(y)
    IN \E i \in 1..(Len(bx) + 1) :
          /\ i <= Len(by)
          /\ \A j \in 1..(i - 1) : bx[j] = by[j]
          /\ \/ i = Len(bx) + 1
             \/ bx[i] < by[i]

\* BTreeMap::insert on a map held as its entries in key order
BTreeMapInsert(m, k, v) ==
    IF \E i \in 1..Len(m) : m[i].key = k
    THEN [i \in 1..Len(m) |->
            IF m[i].key = k THEN [key |-> k, value |-> v] ELSE m[i]]
    ELSE LET p == Cardinality({i \in 1..Len(m) : StrLess(m[i].key, k)})
         IN SubSeq(m, 1, p) \o <<[key |-> k, value |-> v]>> \o SubSeq(m, p + 1, Len(m))

\* Vec::push / an insertion-ordered map: what collecting without sorting gives
AppendInsert(m, k, v) == Append(m, [key |-> k, value |-> v])

\* args.iter().collect::<BTreeMap<_, _>>(): `order` is the order in which the
\* HashMap happens to yield its keys
RECURSIVE collect(_, _, _)
collect(args, order, acc) ==
    IF order = <<>> THEN acc
    ELSE collect(args, Tail(order),
                 BTreeMapInsert(acc, Head(order), args[Head(order)]))

RECURSIVE collect_unsorted(_, _, _)
collect_unsorted(args, order, acc) ==
    IF order = <<>> THEN acc
    ELSE collect_unsorted(args, Tail(order),
                          AppendInsert(acc, Head(order), args[Head(order)]))

object_unsorted(args, order) == Ok(Object(collect_unsorted(args, order, <<>>)))

object(args, order) == Ok(Object(collect(args, order, <<>>)))

(***************************************************************************)
(* crate::models::Color and its CSS text forms                             *)
(***************************************************************************)
\* the value bound to `k` in an Object, as a set (empty when absent)
field(v, k) == {v.entries[i].value : i \in {j \in 1..Len(v.entries) : v.entries[j].key = k}}

ColorFields == <<"h", "s", "l", "a">>

Clamp(x) == IF x < 0 THEN 0 ELSE IF x > 100 THEN 100 ELSE x

\* tera::from_value::<Color>: hue in degrees, saturation, lightness and alpha
\* in hundredths
from_value_Color(v) ==
    IF v.kind # "object" THEN Err("MalformedColor: not a record")
    ELSE IF \E i \in 1..Len(ColorFields) : field(v, ColorFields[i]) = {}
    THEN Err("MalformedColor: missing field "
             \o ColorFields[CHOOSE i \in 1..Len(ColorFields) :
                   /\ field(v, ColorFields[i]) = {}
                   /\ \A j \in 1..(i - 1) : field(v, ColorFields[j]) # {}])
    ELSE IF \E i \in 1..Len(ColorFields) :
               \E x \in field(v, ColorFields[i]) : x.kind # "number"
    THEN Err("MalformedColor: malformed field")
    ELSE LET num(k) == (CHOOSE x \in field(v, k) : TRUE).n
         IN Ok([h |-> num("h") % 360, s |-> Clamp(num("s")),
                l |-> Clamp(num("l")), a |-> Clamp(num("a"))])

Abs(x) == IF x < 0 THEN -x ELSE x

\* From<&Color> for css_colors::RGB: channels 0..255, rounded to nearest
rgb_of(c) ==
    LET C == (100 - Abs(2 * c.l - 100)) * c.s * 120
        X == (100 - Abs(2 * c.l - 100)) * c.s * (60 - Abs((c.h % 120) - 60)) * 2
        m == c.l * 12000 - (100 - Abs(2 * c.l - 100)) * c.s * 60
        sector == c.h \div 60
        chan(x) == (2 * 255 * (x + m) + 1200000) \div 2400000
        r == CASE sector \in {0, 5} -> C [] sector \in {1, 4} -> X [] OTHER -> 0
        g == CASE sector \in {1, 2} -> C [] sector \in {0, 3} -> X [] OTHER -> 0
        b == CASE sector \in {3, 4} -> C [] sector \in {2, 5} -> X [] OTHER -> 0
    IN [r |-> chan(r), g |-> chan(g), b |-> chan(b)]

Digits == <<"0", "1", "2", "3", "4", "5", "6", "7", "8", "9">>

\* Display of a natural number
RECURSIVE dec(_)
dec(n) == IF n < 10 THEN Digits[n + 1] ELSE dec(n \div 10) \o Digits[(n % 10) + 1]

\* Display of a ratio given in hundredths, with two decimal places
dec2(a) == dec(a \div 100) \o "." \o Digits[((a \div 10) % 10) + 1] \o Digits[(a % 10) + 1]

fmt_rgb(c) ==
    LET x == rgb_of(c)
    IN "rgb(" \o dec(x.r) \o ", " \o dec(x.g) \o ", " \o dec(x.b) \o ")"

fmt_rgba(c) ==
    LET x == rgb_of(c)
    IN "rgba(" \o dec(x.r) \o ", " \o dec(x.g) \o ", " \o dec(x.b) \o ", " \o dec2(c.a) \o ")"

fmt_hsl(c) == "hsl(" \o dec(c.h) \o ", " \o dec(c.s) \o "%, " \o dec(c.l) \o "%)"

fmt_hsla(c) ==
    "hsla(" \o dec(c.h) \o ", " \o dec(c.s) \o "%, " \o dec(c.l) \o "%, " \o dec2(c.a) \o ")"

(***************************************************************************)
(* functions.rs: css_rgb, css_rgba, css_hsl, css_hsla                      *)
(***************************************************************************)
css_rgb(args) ==
    IF "color" \notin DOMAIN args THEN Err("color is required")
    ELSE LET color == from_value_Color(args["color"])
         IN IF color.tag # "Ok" THEN color ELSE Ok(String(fmt_rgb(color.value)))

css_rgba(args) ==
    IF "color" \notin DOMAIN args THEN Err("color is required")
    ELSE LET color == from_value_Color(args["color"])
         IN IF color.tag # "Ok" THEN color ELSE Ok(String(fmt_rgba(color.value)))

css_hsl(args) ==
    IF "color" \notin DOMAIN args THEN Err("color is required")
    ELSE LET color == from_value_Color(args["color"])
         IN IF color.tag # "Ok" THEN color ELSE Ok(String(fmt_hsl(color.value)))

\* args.get("color").unwrap() and from_value(..).unwrap(): the bug of
\* unwrapping instead of propagating with `?`
css_hsla_unwrap(args) ==
    IF "color" \notin DOMAIN args THEN Panic
    ELSE LET color == from_value_Color(args["color"])
         IN IF color.tag # "Ok" THEN Panic ELSE Ok(String(fmt_hsla(color.value)))

css_hsla(args) ==
    IF "color" \notin DOMAIN args THEN Err("color is required")
    ELSE LET color == from_value_Color(args["color"])
         IN IF color.tag # "Ok" THEN color ELSE Ok(String(fmt_hsla(color.value)))

(***************************************************************************)
(* templating.rs: the example macros                                       *)
(***************************************************************************)
\* a token matched by `$key:ident` or `$value:tt`
Ident(t) == [tok |-> "ident", text |-> t]
Lit(t) == [tok |-> "literal", text |-> t]

\* stringify!(token).to_string(): the token's source text
stringify(t) == t.text

\* an insert that puts a new key first instead of last
IndexMapInsert_front(m, k, v) ==
    IF \E i \in 1..Len(m) : m[i].key = k
    THEN [i \in 1..Len(m) |->
            IF m[i].key = k THEN [key |-> k, value |-> v] ELSE m[i]]
    ELSE <<[key |-> k, value |-> v]>> \o m

\* IndexMap::insert: a known key keeps its place and takes the new value, a
\* new key goes last
IndexMapInsert(m, k, v) ==
    IF \E i \in 1..Len(m) : m[i].key = k
    THEN [i \in 1..Len(m) |->
            IF m[i].key = k THEN [key |-> k, value |-> v] ELSE m[i]]
    ELSE Append(m, [key |-> k, value |-> v])

\* $(map.insert(stringify!($key).to_string(), stringify!($value).to_string());)*
\* over the written `key = value` pairs, in the order written
RECURSIVE insert_all(_, _)
insert_all(written, map) ==
    IF written = <<>> THEN map
    ELSE insert_all(Tail(written),
                    IndexMapInsert(map, stringify(Head(written).key),
                                   stringify(Head(written).value)))

\* function_example!(name(key = value, ...) => output)
function_example(name, written, output) ==
    [inputs |-> insert_all(written, <<>>), output |-> output]

\* filter_example!(value | name => output)
filter_example_bare(value, name, output) ==
    [value |-> stringify(value), inputs |-> <<>>, output |-> output]

\* filter_example!(value | name(key = value, ...) => output)
filter_example(value, name, written, output) ==
    [value |-> stringify(value), inputs |-> insert_all(written, <<>>),
     output |-> output]

\* a written `key = value` pair
Arg(k, v) == [key |-> Ident(k), value |-> v]

(***************************************************************************)
(* templating.rs: make_engine                                              *)
(***************************************************************************)
\* tera::Tera::default(): nothing of this crate is registered
Tera_default == [filters |-> <<>>, functions |-> <<>>]

\* Tera::register_filter / register_function: HashMap::insert under `name`
register_filter(tera, name, f) == [tera EXCEPT !.filters = (name :> f) @@ @]
register_function(tera, name, f) == [tera EXCEPT !.functions = (name :> f) @@ @]

\* the registration of `mix` left out
make_engine_without_mix ==
    LET t1 == register_filter(Tera_default, "add", "filters::add")
        t2 == register_filter(t1, "sub", "filters::sub")
        t3 == register_filter(t2, "mod", "filters::modify")
        t4 == register_filter(t3, "urlencode_lzma", "filters::urlencode_lzma")
        t5 == register_filter(t4, "trunc", "filters::trunc")
        t7 == register_function(t5, "if", "functions::if_fn")
        t8 == register_function(t7, "object", "functions::object")
        t9 == register_function(t8, "css_rgb", "functions::css_rgb")
        t10 == register_function(t9, "css_rgba", "functions::css_rgba")
        t11 == register_function(t10, "css_hsl", "functions::css_hsl")
    IN register_function(t11, "css_hsla", "functions::css_hsla")

\* css_hsla registered under the name of css_hsl, whose registration it
\* overwrites
make_engine_overwrite ==
    LET t1 == register_filter(Tera_default, "add", "filters::add")
        t2 == register_filter(t1, "sub", "filters::sub")
        t3 == register_filter(t2, "mod", "filters::modify")
        t4 == register_filter(t3, "urlencode_lzma", "filters::urlencode_lzma")
        t5 == register_filter(t4, "trunc", "filters::trunc")
        t6 == register_filter(t5, "mix", "filters::mix")
        t7 == register_function(t6, "if", "functions::if_fn")
        t8 == register_function(t7, "object", "functions::object")
        t9 == register_function(t8, "css_rgb", "functions::css_rgb")
        t10 == register_function(t9, "css_rgba", "functions::css_rgba")
        t11 == register_function(t10, "css_hsl", "functions::css_hsl")
    IN register_function(t11, "css_hsl", "functions::css_hsla")

make_engine ==
    LET t1 == register_filter(Tera_default, "add", "filters::add")
        t2 == register_filter(t1, "sub", "filters::sub")
        t3 == register_filter(t2, "mod", "filters::modify")
        t4 == register_filter(t3, "urlencode_lzma", "filters::urlencode_lzma")
        t5 == register_filter(t4, "trunc", "filters::trunc")
        t6 == register_filter(t5, "mix", "filters::mix")
        t7 == register_function(t6, "if", "functions::if_fn")
        t8 == register_function(t7, "object", "functions::object")
        t9 == register_function(t8, "css_rgb", "functions::css_rgb")
        t10 == register_function(t9, "css_rgba", "functions::css_rgba")
        t11 == register_function(t10, "css_hsl", "functions::css_hsl")
    IN register_function(t11, "css_hsla", "functions::css_hsla")

(***************************************************************************)
(* templating.rs: the catalog of functions                                 *)
(***************************************************************************)
Function_if ==
    [name |-> "if",
     description |-> "Return one value if a condition is true, and another if it's false",
     examples |-> <<
        function_example("if", <<Arg("cond", Ident("true")), Arg("t", Lit("1")),
                                 Arg("f", Lit("0"))>>, "1"),
        function_example("if", <<Arg("cond", Ident("false")), Arg("t", Lit("1")),
                                 Arg("f", Lit("0"))>>, "0")>>]

Function_object ==
    [name |-> "object",
     description |-> "Create an object from the input",
     examples |-> <<
        function_example("object", <<Arg("a", Lit("1")), Arg("b", Lit("2"))>>,
                         "{a: 1, b: 2}"),
        function_example("object", <<Arg("a", Lit("1")), Arg("b", Lit("2"))>>,
                         "{a: 1, b: 2}")>>]

Function_css_rgb ==
    [name |-> "css_rgb",
     description |-> "Convert a color to an RGB CSS string",
     examples |-> <<
        function_example("css_rgb", <<Arg("color", Ident("red"))>>,
                         "rgb(210, 15, 57)")>>]

Function_css_rgba ==
    [name |-> "css_rgba",
     description |-> "Convert a color to an RGBA CSS string",
     examples |-> <<
        function_example("css_rgba", <<Arg("color", Ident("red"))>>,
                         "rgba(210, 15, 57, 1.00)")>>]

Function_css_hsl ==
    [name |-> "css_hsl",
     description |-> "Convert a color to an HSL CSS string",
     examples |-> <<
        function_example("css_hsl", <<Arg("color", Ident("red"))>>,
                         "hsl(347, 87%, 44%)")>>]

Function_css_hsla ==
    [name |-> "css_hsla",
     description |-> "Convert a color to an HSLA CSS string",
     examples |-> <<
        function_example("css_hsla", <<Arg("color", Ident("red"))>>,
                         "hsla(347, 87%, 44%, 1.00)")>>]

\* the descriptor of css_rgba pasted from css_rgb with its name left as it was
all_functions_pasted_name ==
    <<Function_if, Function_object, Function_css_rgb,
      [Function_css_rgba EXCEPT !.name = "css_rgb"],
      Function_css_hsl, Function_css_hsla>>

all_functions ==
    <<Function_if, Function_object, Function_css_rgb, Function_css_rgba,
      Function_css_hsl, Function_css_hsla>>

(***************************************************************************)
(* templating.rs: the catalog of filters                                   *)
(***************************************************************************)
Filter_add ==
    [name |-> "add",
     description |-> "Add a value to a color",
     examples |-> <<
        filter_example(Ident("red"), "add", <<Arg("hue", Lit("30"))>>, "#ff6666"),
        filter_example(Ident("red"), "add", <<Arg("saturation", Lit("0.5"))>>,
                       "#ff6666")>>]

Filter_sub ==
    [name |-> "sub",
     description |-> "Subtract a value from a color",
     examples |-> <<
        filter_example(Ident("red"), "sub", <<Arg("hue", Lit("30"))>>, "#d30f9b"),
        filter_example(Ident("red"), "sub", <<Arg("saturation", Lit("60"))>>,
                       "#8f5360")>>]

Filter_mod ==
    [name |-> "mod",
     description |-> "Modify a color",
     examples |-> <<
        filter_example(Ident("red"), "mod", <<Arg("lightness", Lit("80"))>>,
                       "#f8a0b3"),
        filter_example(Ident("red"), "mod", <<Arg("opacity", Lit("0.5"))>>,
                       "#d20f3980")>>]

Filter_mix ==
    [name |-> "mix",
     description |-> "Mix two colors together",
     examples |-> <<
        filter_example(Ident("red"), "mix",
                       <<Arg("color", Ident("base")), Arg("amount", Lit("0.5"))>>,
                       "#e08097")>>]

Filter_urlencode_lzma ==
    [name |-> "urlencode_lzma",
     description |-> "Serialize an object into a URL-safe string with LZMA compression",
     examples |-> <<
        filter_example_bare(Ident("red"), "urlencode_lzma", "#ff6666"),
        filter_example_bare(Ident("some_object"), "urlencode_lzma",
                            "XQAAgAAEAAAAAAAAAABAqEggMAAAAA==")>>]

Filter_trunc ==
    [name |-> "trunc",
     description |-> "Truncate a number to a certain number of places",
     examples |-> <<
        filter_example(Lit("1.123456"), "trunc", <<Arg("places", Lit("3"))>>,
                       "1.123")>>]

\* a catalog that lists only what some engine has registered so far
all_filters_registered ==
    SelectSeq(<<Filter_add, Filter_sub, Filter_mod, Filter_mix,
                Filter_urlencode_lzma, Filter_trunc>>,
              LAMBDA d : \E e \in engines : d.name \in DOMAIN e.filters)

all_filters ==
    <<Filter_add, Filter_sub, Filter_mod, Filter_mix, Filter_urlencode_lzma,
      Filter_trunc>>

\* the characters of the outputs recorded for the examples of urlencode_lzma
chars(s) ==
    CASE s = "#ff6666" -> <<"#", "f", "f", "6", "6", "6", "6">>
      [] s = "XQAAgAAEAAAAAAAAAABAqEggMAAAAA==" ->
            <<"X", "Q", "A", "A", "g", "A", "A", "E", "A", "A", "A", "A", "A", "A",
              "A", "A", "A", "A", "B", "A", "q", "E", "g", "g", "M", "A", "A", "A",
              "A", "A", "=", "=">>

(***************************************************************************)
(* The arguments the callers supply.                                       *)
(***************************************************************************)
Entry(k, v) == [key |-> k, value |-> v]

\* the color `red` of the examples: hue 347, saturation 0.87, lightness 0.44,
\* alpha 1
ColorRed ==
    Object(<<Entry("h", Number(347)), Entry("s", Number(87)),
             Entry("l", Number(44)), Entry("a", Number(100))>>)
\* a record with no hue, and one whose lightness is text
ColorNoHue ==
    Object(<<Entry("s", Number(87)), Entry("l", Number(44)), Entry("a", Number(100))>>)
ColorTextLightness ==
    Object(<<Entry("h", Number(347)), Entry("s", Number(87)),
             Entry("l", String("44%")), Entry("a", Number(100))>>)

Numbers == {Number(n) : n \in 0..MaxNum}

Values ==
    {Null, Bool(TRUE), Bool(FALSE), String("true"), ColorRed, ColorNoHue,
     ColorTextLightness} \cup Numbers

\* every mapping from some of `keys` to `vals`
ArgMaps(keys, vals) == UNION {[S -> vals] : S \in SUBSET keys}

\* every order in which a HashMap may yield the keys S
Orders(S) ==
    {p \in [1..Cardinality(S) -> S] :
        \A i, j \in 1..Cardinality(S) : i # j => p[i] # p[j]}

ObjectKeys == {KeyNames[i] : i \in 1..MaxKeys}
\* the values offered to `object`
ObjectValues == {Number(1), Number(2), Null}

\* the `key = value` lists written in a macro invocation
WrittenArgs == {Arg(k, v) : k \in {"hue", "amount"}, v \in {Lit("30"), Ident("red")}}
Written == UNION {[1..n -> WrittenArgs] : n \in 0..MaxArgs}
WrittenOutputs == {"#ff6666", "1"}
WrittenValues == {Ident("red"), Lit("1.123456")}

(***************************************************************************)
(* The state machine.                                                      *)
(***************************************************************************)
\* no call is in progress and no result is held
NoCall == [op |-> "none"]

Init ==
    /\ engines = {}
    /\ seenFunctions = {}
    /\ seenFilters = {}
    /\ call = NoCall

MakeEngine ==
    /\ engines' = engines \cup {make_engine}
    /\ UNCHANGED <<seenFunctions, seenFilters, call>>

AllFunctions ==
    /\ seenFunctions' = seenFunctions \cup {all_functions}
    /\ UNCHANGED <<engines, seenFilters, call>>

AllFilters ==
    /\ seenFilters' = seenFilters \cup {all_filters}
    /\ UNCHANGED <<engines, seenFunctions, call>>

CallIf ==
    /\ call = NoCall
    /\ \E args \in ArgMaps({"cond", "t", "f"}, Values) :
          call' = [op |-> "if", args |-> args, result |-> if_fn(args)]
    /\ UNCHANGED <<engines, seenFunctions, seenFilters>>

CallObject ==
    /\ call = NoCall
    /\ \E args \in ArgMaps(ObjectKeys, ObjectValues) :
          \E order \in Orders(DOMAIN args) :
             call' = [op |-> "object", args |-> args, order |-> order,
                      result |-> object(args, order)]
    /\ UNCHANGED <<engines, seenFunctions, seenFilters>>

CallCssRgb ==
    /\ call = NoCall
    /\ \E args \in ArgMaps({"color"}, Values) :
          call' = [op |-> "css_rgb", args |-> args, result |-> css_rgb(args)]
    /\ UNCHANGED <<engines, seenFunctions, seenFilters>>

CallCssRgba ==
    /\ call = NoCall
    /\ \E args \in ArgMaps({"color"}, Values) :
          call' = [op |-> "css_rgba", args |-> args, result |-> css_rgba(args)]
    /\ UNCHANGED <<engines, seenFunctions, seenFilters>>

CallCssHsl ==
    /\ call = NoCall
    /\ \E args \in ArgMaps({"color"}, Values) :
          call' = [op |-> "css_hsl", args |-> args, result |-> css_hsl(args)]
    /\ UNCHANGED <<engines, seenFunctions, seenFilters>>

CallCssHsla ==
    /\ call = NoCall
    /\ \E args \in ArgMaps({"color"}, Values) :
          call' = [op |-> "css_hsla", args |-> args, result |-> css_hsla(args)]
    /\ UNCHANGED <<engines, seenFunctions, seenFilters>>

ExpandFunctionExample ==
    /\ call = NoCall
    /\ \E written \in Written, output \in WrittenOutputs :
          call' = [op |-> "function_example", written |-> written,
                   output |-> output,
                   result |-> function_example("mix", written, output)]
    /\ UNCHANGED <<engines, seenFunctions, seenFilters>>

ExpandFilterExample ==
    /\ call = NoCall
    /\ \E value \in WrittenValues, written \in Written, output \in WrittenOutputs :
          call' = [op |-> "filter_example", value |-> value, written |-> written,
                   output |-> output,
                   result |-> filter_example(value, "add", written, output)]
    /\ UNCHANGED <<engines, seenFunctions, seenFilters>>

ExpandFilterExampleBare ==
    /\ call = NoCall
    /\ \E value \in WrittenValues, output \in WrittenOutputs :
          call' = [op |-> "filter_example_bare", value |-> value,
                   output |-> output,
                   result |-> filter_example_bare(value, "add", output)]
    /\ UNCHANGED <<engines, seenFunctions, seenFilters>>

\* the caller is done with the result of the latest call and lets it go
Drop ==
    /\ call # NoCall
    /\ call' = NoCall
    /\ UNCHANGED <<engines, seenFunctions, seenFilters>>

Next ==
    \/ MakeEngine
    \/ AllFunctions
    \/ AllFilters
    \/ CallIf
    \/ CallObject
    \/ CallCssRgb
    \/ CallCssRgba
    \/ CallCssHsl
    \/ CallCssHsla
    \/ ExpandFunctionExample
    \/ ExpandFilterExample
    \/ ExpandFilterExampleBare
    \/ Drop

Spec == Init /\ [][Next]_vars

(***************************************************************************)
(* The properties.                                                         *)
(***************************************************************************)
Names(catalog) == {catalog[i].name : i \in 1..Len(catalog)}
Keys(entries) == {entries[i].key : i \in 1..Len(entries)}
CssOps == {"css_rgb", "css_rgba", "css_hsl", "css_hsla"}

\* C1: when `cond` is a boolean and `t` and `f` are supplied, `if` succeeds
\* with exactly the value of `t` if `cond` is true and exactly the value of
\* `f` if it is false; if(cond=true, t=1, f=0) is 1 and if(cond=false, t=1,
\* f=0) is 0, the two cases the catalog records as the examples of `if`.
C1_IfSelects ==
    /\ (/\ call.op = "if"
        /\ {"cond", "t", "f"} \subseteq DOMAIN call.args
        /\ call.args["cond"].kind = "bool")
       => call.result = Ok(IF call.args["cond"].b THEN call.args["t"]
                                                  ELSE call.args["f"])
    /\ (/\ call.op = "if"
        /\ call.args = [cond |-> Bool(TRUE), t |-> Number(1), f |-> Number(0)])
       => call.result = Ok(Number(1))
    /\ (/\ call.op = "if"
        /\ call.args = [cond |-> Bool(FALSE), t |-> Number(1), f |-> Number(0)])
       => call.result = Ok(Number(0))
    /\ \A c \in seenFunctions : \A i \in 1..Len(c) :
          c[i].name = "if" =>
             /\ c[i].examples[1].inputs =
                   <<Entry("cond", "true"), Entry("t", "1"), Entry("f", "0")>>
             /\ c[i].examples[1].output = "1"
             /\ c[i].examples[2].inputs =
                   <<Entry("cond", "false"), Entry("t", "1"), Entry("f", "0")>>
             /\ c[i].examples[2].output = "0"

\* a call of `if` with a true condition has returned `t`, a color record,
\* where `f` is a number
C1_Witness ==
    /\ call.op = "if"
    /\ call.args = [cond |-> Bool(TRUE), t |-> ColorRed, f |-> Number(0)]
    /\ call.result = Ok(ColorRed)
    /\ seenFunctions # {}

\* C2: `object` returns a mapping with exactly the supplied keys, each bound
\* to its supplied value, with the keys in lexicographic order whatever order
\* the arguments are iterated in; the empty argument mapping yields the empty
\* mapping.
C2_ObjectSorted ==
    call.op = "object" =>
       LET e == call.result.value.entries
       IN /\ call.result.tag = "Ok"
          /\ call.result.value.kind = "object"
          /\ Keys(e) = DOMAIN call.args
          /\ Len(e) = Cardinality(DOMAIN call.args)
          /\ \A i \in 1..Len(e) : e[i].value = call.args[e[i].key]
          /\ \A i, j \in 1..Len(e) : i < j => StrLess(e[i].key, e[j].key)
          /\ \A order \in Orders(DOMAIN call.args) :
                object(call.args, order) = call.result
          /\ (DOMAIN call.args = {} => e = <<>>)

\* object(b=2, a=1), iterated with `b` first, has returned `a` before `b`
C2_Witness ==
    /\ call.op = "object"
    /\ call.order = <<"b", "a">>
    /\ call.args["a"] = Number(1)
    /\ call.args["b"] = Number(2)
    /\ call.result = Ok(Object(<<Entry("a", Number(1)), Entry("b", Number(2))>>))

IsColorRecord(v) ==
    /\ v.kind = "object"
    /\ \A k \in {"h", "s", "l", "a"} :
          \E i \in 1..Len(v.entries) :
             v.entries[i].key = k /\ v.entries[i].value.kind = "number"

\* C4: each of css_rgb, css_rgba, css_hsl and css_hsla returns an error, and
\* no string, whenever `color` is absent or is not a color record, and never
\* panics; the four accept and reject the same argument mappings.
C4_CssErrors ==
    call.op \in CssOps =>
       /\ call.result.tag \in {"Ok", "Err"}
       /\ ("color" \notin DOMAIN call.args \/ ~IsColorRecord(call.args["color"]))
             => call.result.tag = "Err"
       /\ call.result.tag = "Ok" => call.result.value.kind = "string"
       /\ \A r \in {css_rgb(call.args), css_rgba(call.args),
                    css_hsl(call.args), css_hsla(call.args)} :
             r.tag = call.result.tag

\* css_hsla has rejected a record with no hue
C4_Witness ==
    /\ call.op = "css_hsla"
    /\ call.args = [color |-> ColorNoHue]
    /\ call.result.tag = "Err"

\* the alphabet of URL-safe base64 without padding
Base64Url ==
    {"A", "B", "C", "D", "E", "F", "G", "H", "I", "J", "K", "L", "M", "N", "O",
     "P", "Q", "R", "S", "T", "U", "V", "W", "X", "Y", "Z", "a", "b", "c", "d",
     "e", "f", "g", "h", "i", "j", "k", "l", "m", "n", "o", "p", "q", "r", "s",
     "t", "u", "v", "w", "x", "y", "z", "0", "1", "2", "3", "4", "5", "6", "7",
     "8", "9", "-", "_"}

\* C5: every output the catalog records for an example of the URL-encoding
\* filter is made only of characters of the URL-safe base64 alphabet, with no
\* padding character.
C5_ExamplesAreTokens ==
    \A c \in seenFilters : \A i \in 1..Len(c) :
       c[i].name = "urlencode_lzma" =>
          \A j \in 1..Len(c[i].examples) :
             LET out == chars(c[i].examples[j].output)
             IN \A k \in 1..Len(out) : out[k] \in Base64Url

\* C6: no two descriptors of the function catalog have the same name, and no
\* two descriptors of the filter catalog have the same name.
C6_NamesUnique ==
    /\ \A c \in seenFunctions : \A i, j \in 1..Len(c) :
          c[i].name = c[j].name => i = j
    /\ \A c \in seenFilters : \A i, j \in 1..Len(c) :
          c[i].name = c[j].name => i = j

\* both catalogs have been read, and each lists six descriptors
C6_Witness ==
    /\ \E c \in seenFunctions : Len(c) = 6
    /\ \E c \in seenFilters : Len(c) = 6

\* C7: whatever calls come before or between them, every call of
\* all_functions returns the same list of descriptors as the first call, and
\* likewise every call of all_filters.
C7_CatalogReadOnly ==
    /\ Cardinality(seenFunctions) <= 1
    /\ Cardinality(seenFilters) <= 1
    /\ \A c \in seenFunctions : c = all_functions
    /\ \A c \in seenFilters : c = all_filters

\* both catalogs have been read, an engine has been made and a registered
\* function has been called
C7_Witness ==
    /\ seenFunctions # {}
    /\ seenFilters # {}
    /\ engines # {}
    /\ call.op = "object"

\* C8: `if` returns an error, never a value and never a panic, exactly when
\* `cond` is absent, `cond` is not a boolean, `t` is absent or `f` is absent;
\* the branch not selected is still required; `cond` is checked before `t`
\* and `f`; the same arguments fail with the same error again.
C8_IfErrors ==
    call.op = "if" =>
       LET a == call.args
           r == call.result
           bad_cond == "cond" \notin DOMAIN a \/ a["cond"].kind # "bool"
       IN /\ r.tag \in {"Ok", "Err"}
          /\ r.tag = "Err" <=>
                (bad_cond \/ "t" \notin DOMAIN a \/ "f" \notin DOMAIN a)
          /\ "cond" \notin DOMAIN a => r = Err("cond is required")
          /\ ("cond" \in DOMAIN a /\ a["cond"].kind # "bool")
                => r = Err("cond must be a boolean")
          /\ (~bad_cond /\ "t" \notin DOMAIN a) => r = Err("t is required")
          /\ (~bad_cond /\ "t" \in DOMAIN a /\ "f" \notin DOMAIN a)
                => r = Err("f is required")
          /\ r.tag = "Err" => if_fn(a) = r

\* `if` has failed for a true condition with `t` supplied and `f` absent
C8_Witness ==
    /\ call.op = "if"
    /\ call.args = [cond |-> Bool(TRUE), t |-> Number(1)]
    /\ call.result = Err("f is required")

\* the texts of the argument names written, and the place where a name is
\* first and last written
WrittenNames(w) == {w[i].key.text : i \in 1..Len(w)}
FirstAt(w, k) == CHOOSE i \in 1..Len(w) :
                    w[i].key.text = k /\ \A j \in 1..(i - 1) : w[j].key.text # k
LastAt(w, k) == CHOOSE i \in 1..Len(w) :
                   w[i].key.text = k /\ \A j \in (i + 1)..Len(w) : w[j].key.text # k

\* C9: an example built by function_example! or filter_example! maps every
\* written argument name to the literal text of its value (of the value
\* written last for it, when a name is written more than once), keeps the
\* names in the order they were written, records the output text unchanged
\* and, for a filter, the text of the piped value; `value | name` yields an
\* empty inputs mapping; there are as many inputs as distinct names written.
C9_ExampleRecords ==
    /\ call.op \in {"function_example", "filter_example"} =>
          LET w == call.written
              inputs == call.result.inputs
          IN /\ Keys(inputs) = WrittenNames(w)
             /\ Len(inputs) = Cardinality(WrittenNames(w))
             /\ \A i \in 1..Len(inputs) :
                   inputs[i].value = w[LastAt(w, inputs[i].key)].value.text
             /\ \A i, j \in 1..Len(inputs) :
                   i < j => FirstAt(w, inputs[i].key) < FirstAt(w, inputs[j].key)
             /\ call.result.output = call.output
    /\ call.op \in {"filter_example", "filter_example_bare"} =>
          /\ call.result.value = call.value.text
          /\ call.result.output = call.output
    /\ call.op = "filter_example_bare" => call.result.inputs = <<>>

\* an example has been built from `amount = red, hue = 30, amount = 30`
C9_Witness ==
    /\ call.op = "filter_example"
    /\ call.written = <<Arg("amount", Ident("red")), Arg("hue", Lit("30")),
                        Arg("amount", Lit("30"))>>
    /\ call.result.inputs = <<Entry("amount", "30"), Entry("hue", "30")>>

\* C10: the filter names registered by make_engine are the names of the
\* descriptors of all_filters and the function names registered are the names
\* of the descriptors of all_functions; each name is registered once within
\* its kind, and an engine is returned with all twelve registrations made.
C10_EngineMatchesCatalog ==
    \A e \in engines :
       /\ DOMAIN e.filters = Names(all_filters)
       /\ DOMAIN e.functions = Names(all_functions)
       /\ Cardinality(DOMAIN e.filters) + Cardinality(DOMAIN e.functions) = 12
       /\ e.functions["css_hsl"] = "functions::css_hsl"
       /\ e.functions["css_hsla"] = "functions::css_hsla"

\* an engine has been returned, with `if` among its functions
C10_Witness ==
    \E e \in engines : e.functions["if"] = "functions::if_fn"

=============================================================================
